---- MODULE Spec2Model ----
(***************************************************************************)
(* Finite surreal numbers (realtable/surreal2): the structure cache, the   *)
(* memoised order relation leq, the memoised arithmetic add / neg / mul,   *)
(* the validating constructor and the float bridge stof / ftos.            *)
(*                                                                         *)
(* An identifier (the u64 `hash` of a SurrealFinite) is modelled by the    *)
(* pair <<left, right>> of the sorted option sequences it was computed     *)
(* from: the 64-bit SipHash under the process-wide key is taken to be      *)
(* injective on the structures a run meets.                                *)
(***************************************************************************)
EXTENDS Integers, Sequences, FiniteSets, TLC

\* Bounds of the model.
MaxSteps == 3
MaxOpts == 2
MaxSize == 5
MaxMulDay == 3

VARIABLES CACHE, LEQ_MEMO, ADD_MEMO, NEG_MEMO, MUL_MEMO, held, hist, steps, panicked,
          threads

vars == <<CACHE, LEQ_MEMO, ADD_MEMO, NEG_MEMO, MUL_MEMO, held, hist, steps, panicked, threads>>

----------------------------------------------------------------------------
\* Maps (HashMap) as functions.

EmptyMap == <<>>

Put(m, k, v) == (k :> v) @@ m

\* Option::None, and the result of a call that panicked.
None == <<>>

\* The tables threaded through one call.
Tables == [cache |-> CACHE, leq |-> LEQ_MEMO, add |-> ADD_MEMO, neg |-> NEG_MEMO,
           mul |-> MUL_MEMO, ok |-> TRUE]

Ret(v, st) == [v |-> v, st |-> st]

Panic(st) == [v |-> None, st |-> [st EXCEPT !.ok = FALSE]]

----------------------------------------------------------------------------
\* construction.rs: the structure cache.

SurrealStructure(left, right) == [left |-> left, right |-> right]

Hash(structure) == <<structure.left, structure.right>>

\* CACHE.get(&hash).unwrap(): the callers below panic on a missing identifier.
cached(st, hash) == hash \in DOMAIN st.cache

\* The identifier is computed and the structure is not stored.
cache_insert_hash_only(st, structure) == Ret(Hash(structure), st)

cache_insert(st, structure) ==
    LET hash == Hash(structure)
    IN  Ret(hash,
            IF cached(st, hash) THEN st
            ELSE [st EXCEPT !.cache = Put(st.cache, hash, structure)])

cache_left(st, hash) == IF cached(st, hash) THEN st.cache[hash].left ELSE <<>>

cache_right(st, hash) == IF cached(st, hash) THEN st.cache[hash].right ELSE <<>>

----------------------------------------------------------------------------
\* Every call of leq, add, neg and mul goes through call, which dispatches on
\* the name of the callee.  A step that uses the result of a call takes it as
\* an argument (the operators named .._k, .._t): the result r of a call is the
\* pair of the value r.v it returned and the tables r.st it left.

RECURSIVE call(_, _)

----------------------------------------------------------------------------
\* construction.rs: leq, memoised on the identifier pair.

RECURSIVE none_leq(_, _, _)

\* if leq(..) { result = false; break; }
none_leq_k(r, cs, i) ==
    IF ~r.st.ok THEN r
    ELSE IF r.v THEN Ret(FALSE, r.st)
    ELSE none_leq(r.st, cs, i + 1)

\* One of the two loops of leq over the calls cs: TRUE when none of them holds.
none_leq(st, cs, i) ==
    IF i > Len(cs) THEN Ret(TRUE, st)
    ELSE LET r == call(st, cs[i]) IN none_leq_k(r, cs, i)

\* A slip in the first loop: leq(&xl, y) for leq(y, &xl).
leq_left_calls_swapped(st, x, y) ==
    [i \in 1..Len(cache_left(st, x)) |-> <<"leq", cache_left(st, x)[i], y>>]

\* for xl in x.iter_left() { if leq(y, &xl) .. }
leq_left_calls(st, x, y) ==
    [i \in 1..Len(cache_left(st, x)) |-> <<"leq", y, cache_left(st, x)[i]>>]

\* A slip in the second loop: x.iter_right() for y.iter_right().
leq_right_calls_of_x(st, x, y) ==
    [i \in 1..Len(cache_right(st, x)) |-> <<"leq", cache_right(st, x)[i], x>>]

\* for yr in y.iter_right() { if leq(&yr, x) .. }
leq_right_calls(st, x, y) ==
    [i \in 1..Len(cache_right(st, y)) |-> <<"leq", cache_right(st, y)[i], x>>]

\* LEQ_MEMO.lock().unwrap().insert((x.hash, y.hash), result); result
leq_insert(r, x, y) ==
    IF ~r.st.ok THEN r
    ELSE Ret(r.v, [r.st EXCEPT !.leq = Put(r.st.leq, <<x, y>>, r.v)])

\* if result { for yr in y.iter_right() .. }
leq_k(r, x, y) ==
    IF ~r.st.ok THEN r
    ELSE IF ~r.v THEN leq_insert(r, x, y)
    ELSE IF ~cached(r.st, y) THEN Panic(r.st)
    ELSE LET r2 == none_leq(r.st, leq_right_calls(r.st, x, y), 1) IN leq_insert(r2, x, y)

leq(st, x, y) ==
    IF ~st.ok THEN Panic(st)
    ELSE IF <<x, y>> \in DOMAIN st.leq THEN Ret(st.leq[<<x, y>>], st)
    ELSE IF ~cached(st, x) THEN Panic(st)
    ELSE LET r == none_leq(st, leq_left_calls(st, x, y), 1) IN leq_k(r, x, y)

----------------------------------------------------------------------------
\* mod.rs: PartialEq / PartialOrd / Ord of SurrealFinite.

\* construction::leq(self, other) && construction::leq(other, self)
eq_k(r, x, y) ==
    IF ~r.st.ok \/ ~r.v THEN Ret(FALSE, r.st)
    ELSE call(r.st, <<"leq", y, x>>)

eq(st, x, y) == LET r == call(st, <<"leq", x, y>>) IN eq_k(r, x, y)

\* else if !leq(other, self) { Less } else { Equal }
partial_cmp_k2(r) ==
    IF ~r.st.ok THEN r
    ELSE IF ~r.v THEN Ret("Less", r.st)
    ELSE Ret("Equal", r.st)

\* if !leq(self, other) { Greater } else ..
partial_cmp_k(r, x, y) ==
    IF ~r.st.ok THEN r
    ELSE IF ~r.v THEN Ret("Greater", r.st)
    ELSE LET r2 == call(r.st, <<"leq", y, x>>) IN partial_cmp_k2(r2)

partial_cmp(st, x, y) == LET r == call(st, <<"leq", x, y>>) IN partial_cmp_k(r, x, y)

\* The comparison operators are the defaults of PartialOrd over partial_cmp.
among(c, outcomes) == IF ~c.st.ok THEN c ELSE Ret(c.v \in outcomes, c.st)

\* a >= b
ge(st, x, y) == LET c == partial_cmp(st, x, y) IN among(c, {"Greater", "Equal"})

\* a > b
gt(st, x, y) == LET c == partial_cmp(st, x, y) IN among(c, {"Greater"})

\* a < b
lt(st, x, y) == LET c == partial_cmp(st, x, y) IN among(c, {"Less"})

----------------------------------------------------------------------------
\* Vec::sort(): the stable sort of a short slice, an insertion sort that
\* moves each element left past the elements it is less than.

RECURSIVE insert_pos(_, _, _, _)

insert_pos_k(c, v, x, j) ==
    IF ~c.st.ok THEN c
    ELSE IF c.v THEN insert_pos(c.st, v, x, j - 1)
    ELSE Ret(j, c.st)

\* The index after which x goes among v[1..j].
insert_pos(st, v, x, j) ==
    IF j = 0 THEN Ret(0, st)
    ELSE LET c == lt(st, x, v[j]) IN insert_pos_k(c, v, x, j)

RECURSIVE sort_from(_, _, _)

sort_from_k(p, v, i) ==
    IF ~p.st.ok THEN p
    ELSE sort_from(p.st,
                   [k \in 1..Len(v) |->
                       IF k <= p.v THEN v[k]
                       ELSE IF k = p.v + 1 THEN v[i]
                       ELSE IF k <= i THEN v[k - 1]
                       ELSE v[k]],
                   i + 1)

sort_from(st, v, i) ==
    IF i > Len(v) THEN Ret(v, st)
    ELSE LET p == insert_pos(st, v, v[i], i - 1) IN sort_from_k(p, v, i)

sort(st, v) == sort_from(st, v, 2)

----------------------------------------------------------------------------
\* mod.rs: the constructors.

\* cache_insert(SurrealStructure::new(left, right))
new_unchecked_k2(l, r) ==
    IF ~r.st.ok THEN r
    ELSE cache_insert(r.st, SurrealStructure(l.v, r.v))

\* right.sort()
new_unchecked_k(l, right) == LET r == sort(l.st, right) IN new_unchecked_k2(l, r)

\* left.sort(); ..
new_unchecked(st, left, right) == LET l == sort(st, left) IN new_unchecked_k(l, right)

left_is_empty(st, hash) == Len(cache_left(st, hash)) = 0

right_is_empty(st, hash) == Len(cache_right(st, hash)) = 0

last_left(st, hash) == cache_left(st, hash)[Len(cache_left(st, hash))]

first_right(st, hash) == cache_right(st, hash)[1]

\* if .. x.iter_left().last() >= x.iter_right().next() { return None; } Some(x)
new_k2(x, c) ==
    IF ~c.st.ok THEN c
    ELSE IF c.v THEN Ret(None, c.st)
    ELSE Ret(x.v, c.st)

\* A slip in the test: > for >=, so equal options on both sides pass.
new_k_gt(x) ==
    IF ~x.st.ok THEN x
    ELSE IF ~left_is_empty(x.st, x.v) /\ ~right_is_empty(x.st, x.v)
         THEN LET c == gt(x.st, last_left(x.st, x.v), first_right(x.st, x.v)) IN new_k2(x, c)
    ELSE x

\* if !x.left_is_empty() && !x.right_is_empty() && ..
new_k(x) ==
    IF ~x.st.ok THEN x
    ELSE IF ~left_is_empty(x.st, x.v) /\ ~right_is_empty(x.st, x.v)
         THEN LET c == ge(x.st, last_left(x.st, x.v), first_right(x.st, x.v)) IN new_k2(x, c)
    ELSE x

\* Some(x), or None when the largest left option >= the smallest right option.
new(st, left, right) == LET x == new_unchecked(st, left, right) IN new_k(x)

\* .unwrap()
unwrap(x) ==
    IF ~x.st.ok THEN x
    ELSE IF x.v = None THEN Panic(x.st)
    ELSE x

\* SurrealFinite::new(..).unwrap()
new_unwrap(st, left, right) == LET x == new(st, left, right) IN unwrap(x)

zero(st) == new_unchecked(st, <<>>, <<>>)

\* new_unchecked(vec![SurrealFinite::zero()], vec![])
one_k(z) == new_unchecked(z.st, <<z.v>>, <<>>)

one(st) == LET z == zero(st) IN one_k(z)

----------------------------------------------------------------------------
\* arithmetic.rs: add, neg, mul, each memoised on the operand identifiers.

RECURSIVE map_calls(_, _, _, _)

map_calls_k(r, cs, i, acc) == map_calls(r.st, cs, i + 1, Append(acc, r.v))

\* for .. { acc.push(<call>); } over the calls cs, in order
map_calls(st, cs, i, acc) ==
    IF ~st.ok THEN Panic(st)
    ELSE IF i > Len(cs) THEN Ret(acc, st)
    ELSE LET r == call(st, cs[i]) IN map_calls_k(r, cs, i, acc)

\* add(o, y) for each o of opts
add_calls(opts, y) == [i \in 1..Len(opts) |-> <<"add", opts[i], y>>]

\* A slip in the left options: the loop over y.iter_left() is missing.
add_left_calls_of_x(st, x, y) == add_calls(cache_left(st, x), y)

\* for xl in x.iter_left() { add(xl, y) }  for yl in y.iter_left() { add(yl, x) }
add_left_calls(st, x, y) ==
    add_calls(cache_left(st, x), y) \o add_calls(cache_left(st, y), x)

\* A slip in the right options: the loops run over the left options again.
add_right_calls_from_left(st, x, y) ==
    add_calls(cache_left(st, x), y) \o add_calls(cache_left(st, y), x)

\* for xr in x.iter_right() { add(xr, y) }  for yr in y.iter_right() { add(yr, x) }
add_right_calls(st, x, y) ==
    add_calls(cache_right(st, x), y) \o add_calls(cache_right(st, y), x)

\* A slip in the key of the memo entry: (y.hash, x.hash) for (x.hash, y.hash).
add_insert_swapped(result, x, y) ==
    IF ~result.st.ok THEN result
    ELSE Ret(result.v, [result.st EXCEPT !.add = Put(result.st.add, <<y, x>>, result.v)])

\* ADD_MEMO.lock().unwrap().insert((x.hash, y.hash), result.hash); result
add_insert(result, x, y) ==
    IF ~result.st.ok THEN result
    ELSE Ret(result.v, [result.st EXCEPT !.add = Put(result.st.add, <<x, y>>, result.v)])

\* let result = SurrealFinite::new(new_left, new_right).unwrap();
add_k2(new_left, new_right, x, y) ==
    IF ~new_right.st.ok THEN Panic(new_right.st)
    ELSE LET result == new_unwrap(new_right.st, new_left.v, new_right.v)
         IN  add_insert(result, x, y)

add_k(new_left, x, y) ==
    LET new_right == map_calls(new_left.st, add_right_calls(new_left.st, x, y), 1, <<>>)
    IN  add_k2(new_left, new_right, x, y)

add(st, x, y) ==
    IF ~st.ok THEN Panic(st)
    ELSE IF <<x, y>> \in DOMAIN st.add THEN Ret(st.add[<<x, y>>], st)
    ELSE IF ~cached(st, x) \/ ~cached(st, y) THEN Panic(st)
    ELSE LET new_left == map_calls(st, add_left_calls(st, x, y), 1, <<>>)
         IN  add_k(new_left, x, y)

\* neg(o) for each o of opts
neg_calls(opts) == [i \in 1..Len(opts) |-> <<"neg", opts[i]>>]

\* NEG_MEMO.lock().unwrap().insert(x.hash, result.hash); result
neg_insert(result, x) ==
    IF ~result.st.ok THEN result
    ELSE Ret(result.v, [result.st EXCEPT !.neg = Put(result.st.neg, x, result.v)])

neg_k2(new_left, new_right, x) ==
    IF ~new_right.st.ok THEN Panic(new_right.st)
    ELSE LET result == new_unwrap(new_right.st, new_left.v, new_right.v)
         IN  neg_insert(result, x)

\* for xl in x.iter_left() { new_right.push(neg(xl)); }
neg_k(new_left, x) ==
    LET new_right == map_calls(new_left.st, neg_calls(cache_left(new_left.st, x)), 1, <<>>)
    IN  neg_k2(new_left, new_right, x)

\* A slip in neg: the sides are not exchanged, left options stay on the left.
neg_k_same_side(new_left, x) ==
    LET new_right == map_calls(new_left.st, neg_calls(cache_right(new_left.st, x)), 1, <<>>)
    IN  neg_k2(new_left, new_right, x)

neg_same_side(st, x) ==
    IF ~st.ok THEN Panic(st)
    ELSE IF x \in DOMAIN st.neg THEN Ret(st.neg[x], st)
    ELSE IF ~cached(st, x) THEN Panic(st)
    ELSE LET new_left == map_calls(st, neg_calls(cache_left(st, x)), 1, <<>>)
         IN  neg_k_same_side(new_left, x)

\* for xr in x.iter_right() { new_left.push(neg(xr)); } ..
neg(st, x) ==
    IF ~st.ok THEN Panic(st)
    ELSE IF x \in DOMAIN st.neg THEN Ret(st.neg[x], st)
    ELSE IF ~cached(st, x) THEN Panic(st)
    ELSE LET new_left == map_calls(st, neg_calls(cache_right(st, x)), 1, <<>>)
         IN  neg_k(new_left, x)

\* self + (-other)
sub_k(n, x) == call(n.st, <<"add", x, n.v>>)

sub(st, x, y) == LET n == call(st, <<"neg", y>>) IN sub_k(n, x)

\* add(add(mul(xo, y), mul(x, yo)), neg(mul(xo, yo))), innermost calls first
mul_t5(c, e) == call(e.st, <<"add", c.v, e.v>>)

mul_t4(c, d) == LET e == call(d.st, <<"neg", d.v>>) IN mul_t5(c, e)

mul_t3(c, xo, yo) == LET d == call(c.st, <<"mul", xo, yo>>) IN mul_t4(c, d)

mul_t2(a, b, xo, yo) == LET c == call(b.st, <<"add", a.v, b.v>>) IN mul_t3(c, xo, yo)

\* A slip in the second product of a term: mul(xo, yo) for mul(x, yo).
mul_t_of_option(a, x, xo, yo) ==
    LET b == call(a.st, <<"mul", xo, yo>>) IN mul_t2(a, b, xo, yo)

mul_t(a, x, xo, yo) == LET b == call(a.st, <<"mul", x, yo>>) IN mul_t2(a, b, xo, yo)

mul_term(st, x, y, xo, yo) == LET a == call(st, <<"mul", xo, y>>) IN mul_t(a, x, xo, yo)

\* for xo in xs { for yo in ys { .. } }: the pairs <<xo, yo>> in the order of the loops
pairs(xs, ys) ==
    [k \in 1..(Len(xs) * Len(ys)) |->
        <<xs[((k - 1) \div Len(ys)) + 1], ys[((k - 1) % Len(ys)) + 1]>>]

RECURSIVE mul_each(_, _, _, _, _, _)

mul_each_k(t, x, y, ps, i, acc) == mul_each(t.st, x, y, ps, i + 1, Append(acc, t.v))

\* acc.push(<term of xo, yo>) for each pair of ps
mul_each(st, x, y, ps, i, acc) ==
    IF ~st.ok THEN Panic(st)
    ELSE IF i > Len(ps) THEN Ret(acc, st)
    ELSE LET t == mul_term(st, x, y, ps[i][1], ps[i][2]) IN mul_each_k(t, x, y, ps, i, acc)

\* xl, yl then xr, yr
mul_left_pairs(st, x, y) ==
    pairs(cache_left(st, x), cache_left(st, y)) \o pairs(cache_right(st, x), cache_right(st, y))

\* A slip in the right options: the pairs of the left options again.
mul_right_pairs_same_sides(st, x, y) ==
    pairs(cache_left(st, x), cache_left(st, y)) \o pairs(cache_right(st, x), cache_right(st, y))

\* xl, yr then xr, yl
mul_right_pairs(st, x, y) ==
    pairs(cache_left(st, x), cache_right(st, y)) \o pairs(cache_right(st, x), cache_left(st, y))

\* MUL_MEMO.lock().unwrap().insert((x.hash, y.hash), result.hash); result
mul_insert(result, x, y) ==
    IF ~result.st.ok THEN result
    ELSE Ret(result.v, [result.st EXCEPT !.mul = Put(result.st.mul, <<x, y>>, result.v)])

mul_k2(new_left, new_right, x, y) ==
    IF ~new_right.st.ok THEN Panic(new_right.st)
    ELSE LET result == new_unwrap(new_right.st, new_left.v, new_right.v)
         IN  mul_insert(result, x, y)

mul_k(new_left, x, y) ==
    LET new_right == mul_each(new_left.st, x, y, mul_right_pairs(new_left.st, x, y), 1, <<>>)
    IN  mul_k2(new_left, new_right, x, y)

mul(st, x, y) ==
    IF ~st.ok THEN Panic(st)
    ELSE IF <<x, y>> \in DOMAIN st.mul THEN Ret(st.mul[<<x, y>>], st)
    ELSE IF ~cached(st, x) \/ ~cached(st, y) THEN Panic(st)
    ELSE LET new_left == mul_each(st, x, y, mul_left_pairs(st, x, y), 1, <<>>)
         IN  mul_k(new_left, x, y)

----------------------------------------------------------------------------
\* f64 values: the dyadic rational n / 2^e, kept normalised (e = 0 or n odd).
\* Every float the model meets is a dyadic of small magnitude and exponent,
\* on which f64 addition, subtraction and halving are exact.

RECURSIVE Pow2(_)
Pow2(k) == IF k = 0 THEN 1 ELSE 2 * Pow2(k - 1)

RECURSIVE DNorm(_, _)
DNorm(n, e) == IF e > 0 /\ n % 2 = 0 THEN DNorm(n \div 2, e - 1) ELSE [n |-> n, e |-> e]

D(n) == [n |-> n, e |-> 0]

DMaxE(a, b) == IF a.e >= b.e THEN a.e ELSE b.e

DScaled(a, e) == a.n * Pow2(e - a.e)

DAdd(a, b) == DNorm(DScaled(a, DMaxE(a, b)) + DScaled(b, DMaxE(a, b)), DMaxE(a, b))

DSub(a, b) == DNorm(DScaled(a, DMaxE(a, b)) - DScaled(b, DMaxE(a, b)), DMaxE(a, b))

DHalf(a) == DNorm(a.n, a.e + 1)

DAbs(a) == [n |-> IF a.n < 0 THEN 0 - a.n ELSE a.n, e |-> a.e]

DGt(a, b) == DScaled(a, DMaxE(a, b)) > DScaled(b, DMaxE(a, b))

DLeq(a, b) == ~DGt(a, b)

\* std::f64::EPSILON = 2^-52
EpsilonExp == 52

\* d > EPSILON, for d >= 0
GtEpsilon(d) == IF d.e < EpsilonExp THEN d.n > 0 ELSE d.n > Pow2(d.e - EpsilonExp)

----------------------------------------------------------------------------
\* mod.rs: stof, the four-case projection to f64.

RECURSIVE stof(_, _)
stof(st, x) ==
    LET ls == cache_left(st, x)
        rs == cache_right(st, x)
    IN  IF Len(ls) = 0 /\ Len(rs) = 0 THEN D(0)
        ELSE IF Len(ls) = 0 THEN DSub(stof(st, rs[1]), D(1))
        ELSE IF Len(rs) = 0 THEN DAdd(stof(st, ls[Len(ls)]), D(1))
        ELSE DHalf(DAdd(stof(st, ls[Len(ls)]), stof(st, rs[1])))

----------------------------------------------------------------------------
\* construction.rs: ftos, the search for the surreal whose stof is f.

\* Iterations granted to each loop of ftos; Diverges is the result of a search
\* that has not ended within them.
FtosFuel == 8

Diverges == <<"diverges">>

RECURSIVE ftos_inner(_, _, _, _, _, _)

\* small_bound = large_bound; large_bound += increment;
ftos_inner_k(s, f, increment, large_bound, fuel) ==
    ftos_inner(s.st, f, increment, s.v, large_bound, fuel - 1)

\* while f.abs() > large_bound.stof().abs() { .. }: <<large_bound, small_bound>> after it
ftos_inner(st, f, increment, large_bound, small_bound, fuel) ==
    IF ~st.ok THEN Panic(st)
    ELSE IF ~DGt(DAbs(f), DAbs(stof(st, large_bound)))
         THEN Ret(<<large_bound, small_bound>>, st)
    ELSE IF fuel = 0 THEN Ret(Diverges, st)
    ELSE LET s == call(st, <<"add", large_bound, increment>>)
         IN  ftos_inner_k(s, f, increment, large_bound, fuel)

RECURSIVE ftos_outer(_, _, _, _, _, _, _)

ftos_outer_k3(inc, f, z, bounds, fuel) ==
    ftos_outer(inc.st, f, z, inc.v, bounds[1], bounds[2], fuel - 1)

\* if increment > zero { new([zero], [increment]) } else { new([increment], [zero]) }
ftos_outer_k2(c, f, z, increment, bounds, fuel) ==
    LET inc == IF ~c.st.ok THEN c
               ELSE new_unwrap(c.st, IF c.v THEN <<z>> ELSE <<increment>>,
                               IF c.v THEN <<increment>> ELSE <<z>>)
    IN  ftos_outer_k3(inc, f, z, bounds, fuel)

ftos_outer_k(in, f, z, increment, fuel) ==
    IF ~in.st.ok THEN Panic(in.st)
    ELSE IF in.v = Diverges THEN in
    ELSE LET c == gt(in.st, increment, z)
         IN  ftos_outer_k2(c, f, z, increment, in.v, fuel)

\* while (f - large_bound.stof()).abs() > EPSILON { large_bound = small_bound; .. }
ftos_outer(st, f, z, increment, large_bound, small_bound, fuel) ==
    IF ~st.ok THEN Panic(st)
    ELSE IF ~GtEpsilon(DAbs(DSub(f, stof(st, large_bound)))) THEN Ret(large_bound, st)
    ELSE IF fuel = 0 THEN Ret(Diverges, st)
    ELSE LET in == ftos_inner(st, f, increment, small_bound, small_bound, FtosFuel)
         IN  ftos_outer_k(in, f, z, increment, fuel)

\* let mut increment = if f > 0.0 { one } else { neg_one }; ..
ftos_k3(z, o, n, f) ==
    ftos_outer(n.st, f, z.v, IF DGt(f, D(0)) THEN o.v ELSE n.v, z.v, z.v, FtosFuel)

\* let neg_one = SurrealFinite::new(vec![], vec![zero]).unwrap();
ftos_k2(z, o, f) == LET n == new_unwrap(o.st, <<>>, <<z.v>>) IN ftos_k3(z, o, n, f)

\* let one = SurrealFinite::new(vec![zero], vec![]).unwrap();
ftos_k(z, f) == LET o == new_unwrap(z.st, <<z.v>>, <<>>) IN ftos_k2(z, o, f)

ftos(st, f) == LET z == zero(st) IN ftos_k(z, f)

\* The callees, by name.
\* The iterations of a remainder loop the model follows.
RemFuel == 2

RECURSIVE rem_loop(_, _, _, _)

\* total -= other;  which is  self.hash = (*self - other).hash
rem_loop_k2(d, other, fuel) == rem_loop(d.st, d.v, other, fuel - 1)

\* The loop also ends on a total that is other itself.
rem_loop_k_gt(c, total, other, fuel) ==
    IF ~c.st.ok THEN Panic(c.st)
    ELSE IF ~c.v \/ total = other THEN Ret(total, c.st)
    ELSE IF fuel = 0 THEN Ret(Diverges, c.st)
    ELSE LET d == sub(c.st, total, other) IN rem_loop_k2(d, other, fuel)

\* c is total >= other: the loop ends with total, or subtracts once more.
rem_loop_k(c, total, other, fuel) ==
    IF ~c.st.ok THEN Panic(c.st)
    ELSE IF ~c.v THEN Ret(total, c.st)
    ELSE IF fuel = 0 THEN Ret(Diverges, c.st)
    ELSE LET d == sub(c.st, total, other) IN rem_loop_k2(d, other, fuel)

\* while total >= other { total -= other; }
rem_loop(st, total, other, fuel) ==
    IF ~st.ok THEN Panic(st)
    ELSE LET c == ge(st, total, other) IN rem_loop_k(c, total, other, fuel)

\* let mut total = self; while total >= other { total -= other; } total
rem(st, x, y) == rem_loop(st, x, y, RemFuel)

\* while *self >= other { self.hash = (*self - other).hash; }: self after it
rem_assign(st, x, y) == rem_loop(st, x, y, RemFuel)

call(st, c) ==
    CASE c[1] = "leq" -> leq(st, c[2], c[3])
      [] c[1] = "rem" -> rem(st, c[2], c[3])
      [] c[1] = "rem_assign" -> rem_assign(st, c[2], c[3])
      [] c[1] = "add" -> add(st, c[2], c[3])
      [] c[1] = "neg" -> neg(st, c[2])
      [] c[1] = "mul" -> mul(st, c[2], c[3])
      [] c[1] = "sub" -> sub(st, c[2], c[3])
      [] c[1] = "new" -> new(st, c[2], c[3])
      [] c[1] = "zero" -> zero(st)
      [] c[1] = "one" -> one(st)
      [] c[1] = "partial_cmp" -> partial_cmp(st, c[2], c[3])
      [] c[1] = "eq" -> eq(st, c[2], c[3])
      [] c[1] = "ftos" -> ftos(st, c[2])

----------------------------------------------------------------------------
\* The program: a caller that holds the handles it was given and calls the
\* public API on them.

Init ==
    /\ CACHE = EmptyMap
    /\ LEQ_MEMO = EmptyMap
    /\ ADD_MEMO = EmptyMap
    /\ NEG_MEMO = EmptyMap
    /\ MUL_MEMO = EmptyMap
    /\ held = {}
    /\ hist = EmptyMap
    /\ steps = 0
    /\ panicked = FALSE
    /\ threads = <<>>

CanCall == steps < MaxSteps /\ ~panicked

\* The number of nodes of the tree a handle unfolds to; the caller keeps the
\* handles of at most MaxSize nodes.
RECURSIVE Size(_)
RECURSIVE SizeSum(_, _)
SizeSum(opts, i) == IF i > Len(opts) THEN 0 ELSE Size(opts[i]) + SizeSum(opts, i + 1)

Size(x) == 1 + SizeSum(x[1], 1) + SizeSum(x[2], 1)

Keeps(r) == r.st.ok /\ r.v # None /\ r.v # Diverges /\ Size(r.v) <= MaxSize

\* The tables after a call, and the handle it returned (if any).
Commit(c, r) ==
    /\ CACHE' = r.st.cache
    /\ LEQ_MEMO' = r.st.leq
    /\ ADD_MEMO' = r.st.add
    /\ NEG_MEMO' = r.st.neg
    /\ MUL_MEMO' = r.st.mul
    /\ panicked' = ~r.st.ok
    /\ steps' = steps + 1
    /\ held' = IF Keeps(r) THEN held \cup {r.v} ELSE held
    /\ hist' = IF r.st.ok /\ c \notin DOMAIN hist THEN Put(hist, c, r.v) ELSE hist
    /\ UNCHANGED threads

\* A comparison c: the tables change, no handle is returned.
CommitCmp(c, r) ==
    /\ CACHE' = r.st.cache
    /\ LEQ_MEMO' = r.st.leq
    /\ ADD_MEMO' = r.st.add
    /\ NEG_MEMO' = r.st.neg
    /\ MUL_MEMO' = r.st.mul
    /\ panicked' = ~r.st.ok
    /\ steps' = steps + 1
    /\ hist' = IF r.st.ok /\ c \notin DOMAIN hist THEN Put(hist, c, r.v) ELSE hist
    /\ UNCHANGED <<held, threads>>

\* The option sequences a caller can pass to new.
Options == UNION {[1..k -> held] : k \in 0..MaxOpts}

\* A call c of the API on the tables as they are.
Do(c) == \E r \in {call(Tables, c)} : Commit(c, r)

DoZero == CanCall /\ Do(<<"zero">>)

DoOne == CanCall /\ Do(<<"one">>)

DoNew ==
    /\ CanCall
    /\ \E left \in Options, right \in Options :
          /\ Len(left) + Len(right) <= MaxOpts
          /\ Do(<<"new", left, right>>)

DoAdd == CanCall /\ \E x \in held, y \in held : Do(<<"add", x, y>>)

DoNeg == CanCall /\ \E x \in held : Do(<<"neg", x>>)

DoSub == CanCall /\ \E x \in held, y \in held : Do(<<"sub", x, y>>)

\* The day a handle's tree is born on: its depth.
RECURSIVE Day(_)
RECURSIVE DayMax(_, _)
DayMax(opts, i) ==
    IF i > Len(opts) THEN 0
    ELSE IF Day(opts[i]) + 1 > DayMax(opts, i + 1) THEN Day(opts[i]) + 1
    ELSE DayMax(opts, i + 1)

Day(x) == IF DayMax(x[1], 1) > DayMax(x[2], 1) THEN DayMax(x[1], 1) ELSE DayMax(x[2], 1)

\* The products the model computes: operands of at most MaxMulDay days together.
CanMul(x, y) == Day(x) + Day(y) <= MaxMulDay

MulArgs == {xy \in held \X held : CanMul(xy[1], xy[2])}

DoMul ==
    CanCall /\ \E xy \in MulArgs : Do(<<"mul", xy[1], xy[2]>>)

\* A comparison c of the API on the tables as they are.
DoCompare(c) == \E r \in {call(Tables, c)} : CommitCmp(c, r)

DoCmp == CanCall /\ \E x \in held, y \in held : DoCompare(<<"partial_cmp", x, y>>)

DoEq == CanCall /\ \E x \in held, y \in held : DoCompare(<<"eq", x, y>>)

\* ftos of the float a held handle projects to
DoFtos ==
    CanCall /\ \E x \in held : Do(<<"ftos", stof(Tables, x)>>)

\* The tables after a remainder, and the handle it returned; from a loop that
\* does not end the caller gets nothing and makes no further call.
CommitLoop(c, r) ==
    /\ CACHE' = r.st.cache
    /\ LEQ_MEMO' = r.st.leq
    /\ ADD_MEMO' = r.st.add
    /\ NEG_MEMO' = r.st.neg
    /\ MUL_MEMO' = r.st.mul
    /\ panicked' = ~r.st.ok
    /\ steps' = IF r.v = Diverges THEN MaxSteps ELSE steps + 1
    /\ held' = IF Keeps(r) THEN held \cup {r.v} ELSE held
    /\ hist' = IF r.st.ok /\ c \notin DOMAIN hist THEN Put(hist, c, r.v) ELSE hist
    /\ UNCHANGED threads

\* A remainder c of the API on the tables as they are.
DoRemainder(c) == \E r \in {call(Tables, c)} : CommitLoop(c, r)

\* The quotients the model follows: |x| is at most Day(x) and a positive y
\* of day d is at least 1 / 2^(d - 1), so a loop that ends at all ends
\* within Day(x) * 2^(d - 1) subtractions.
CanRem(x, y) == Day(x) * Pow2(IF Day(y) = 0 THEN 0 ELSE Day(y) - 1) <= RemFuel

RemArgs == {xy \in held \X held : CanRem(xy[1], xy[2])}

\* x % y
DoRem == CanCall /\ \E xy \in RemArgs : DoRemainder(<<"rem", xy[1], xy[2]>>)

\* x %= y
DoRemAssign == CanCall /\ \E xy \in RemArgs : DoRemainder(<<"rem_assign", xy[1], xy[2]>>)

Next ==
    \/ DoRem
    \/ DoRemAssign
    \/ DoZero
    \/ DoOne
    \/ DoNew
    \/ DoAdd
    \/ DoNeg
    \/ DoSub
    \/ DoMul
    \/ DoCmp
    \/ DoEq
    \/ DoFtos

Spec == Init /\ [][Next]_vars

----------------------------------------------------------------------------
\* The same code run by several threads.  A thread is a stack of frames, one
\* per call in progress; a step of a thread is one acquisition of a lock (a
\* lookup or an insert in the table it guards) followed by the thread's own
\* work up to its next acquisition.

MaxThreads == 2
MaxThreadCalls == 2

Threads == 1..MaxThreads

\* A frame: the function, the place in it, its arguments x, y (or l, r) and
\* its locals; ret is the value the last callee returned, guards the locks
\* whose MutexGuard is alive in the frame.
Frame(fn, x, y, l, r) ==
    [fn |-> fn, pc |-> "start", x |-> x, y |-> y, l |-> l, r |-> r, i |-> 1, j |-> 1,
     phase |-> 1, acc |-> <<>>, acc2 |-> <<>>, a |-> None, b |-> None, ret |-> None,
     guards |-> {}]

\* The functions that begin with a lookup in their memo table.
memo_frame(fn, x, y) == [Frame(fn, x, y, <<>>, <<>>) EXCEPT !.pc = "memo"]

leq_frame(x, y) == memo_frame("leq", x, y)

partial_cmp_frame(x, y) == Frame("partial_cmp", x, y, <<>>, <<>>)

sort_frame(v) == [Frame("sort", None, None, v, <<>>) EXCEPT !.i = 2]

cache_insert_frame(left, right) ==
    [Frame("cache_insert", None, None, left, right) EXCEPT !.pc = "hasher"]

new_unchecked_frame(left, right) == Frame("new_unchecked", None, None, left, right)

new_frame(left, right) == Frame("new", None, None, left, right)

\* The frame of the call c of the API or of a callee.
call_frame(c) ==
    CASE c[1] = "leq" -> leq_frame(c[2], c[3])
      [] c[1] = "partial_cmp" -> partial_cmp_frame(c[2], c[3])
      [] c[1] = "add" -> memo_frame("add", c[2], c[3])
      [] c[1] = "neg" -> memo_frame("neg", c[2], None)
      [] c[1] = "mul" -> memo_frame("mul", c[2], c[3])
      [] c[1] = "new" -> new_frame(c[2], c[3])
      [] c[1] = "zero" -> Frame("zero", None, None, <<>>, <<>>)
      [] c[1] = "one" -> Frame("one", None, None, <<>>, <<>>)

Top(s) == s[Len(s)]

SetTop(s, f) == [s EXCEPT ![Len(s)] = f]

\* The caller f goes on at pc once the callee has returned.
Push(s, f, pc, callee) == Append(SetTop(s, [f EXCEPT !.pc = pc]), callee)

\* return v: to the caller's ret, or out of the thread's call.
Return(s, v) ==
    IF Len(s) = 1 THEN <<[Frame("done", None, None, <<>>, <<>>) EXCEPT !.ret = v]>>
    ELSE SetTop(SubSeq(s, 1, Len(s) - 1), [s[Len(s) - 1] EXCEPT !.ret = v])

\* .unwrap() of None, or of a missing cache entry: the thread panics.
Panicking == <<Frame("panic", None, None, <<>>, <<>>)>>

\* The places where a frame is about to take a lock.
LockPcs ==
    {"memo", "insert", "read", "outer_read", "inner_read", "hasher", "entry",
     "left_is_empty", "right_is_empty", "iter_left", "iter_right"}

Resting(s) == Top(s).fn \in {"done", "panic"} \/ Top(s).pc \in LockPcs

\* leq between its lock acquisitions: the two loops.
leq_local(s, f) ==
    CASE f.pc = "left_loop" ->
            IF f.i > Len(f.l) THEN SetTop(s, [f EXCEPT !.pc = "read", !.phase = 2])
            ELSE Push(s, f, "left_ret", leq_frame(f.y, f.l[f.i]))
      [] f.pc = "left_ret" ->
            IF f.ret THEN SetTop(s, [f EXCEPT !.a = FALSE, !.pc = "insert"])
            ELSE SetTop(s, [f EXCEPT !.i = f.i + 1, !.pc = "left_loop"])
      [] f.pc = "right_loop" ->
            IF f.i > Len(f.l) THEN SetTop(s, [f EXCEPT !.a = TRUE, !.pc = "insert"])
            ELSE Push(s, f, "right_ret", leq_frame(f.l[f.i], f.x))
      [] f.pc = "right_ret" ->
            IF f.ret THEN SetTop(s, [f EXCEPT !.a = FALSE, !.pc = "insert"])
            ELSE SetTop(s, [f EXCEPT !.i = f.i + 1, !.pc = "right_loop"])

\* partial_cmp: no lock of its own.
partial_cmp_local(s, f) ==
    CASE f.pc = "start" -> Push(s, f, "first", leq_frame(f.x, f.y))
      [] f.pc = "first" ->
            IF ~f.ret THEN Return(s, "Greater")
            ELSE Push(s, f, "second", leq_frame(f.y, f.x))
      [] f.pc = "second" -> Return(s, IF ~f.ret THEN "Less" ELSE "Equal")

\* v with v[i] moved to the place after v[j]
moved(v, i, j) ==
    [k \in 1..Len(v) |->
        IF k <= j THEN v[k]
        ELSE IF k = j + 1 THEN v[i]
        ELSE IF k <= i THEN v[k - 1]
        ELSE v[k]]

\* Vec::sort(): the insertion sort of a short slice, comparing with cmp.
sort_local(s, f) ==
    CASE f.pc = "start" ->
            IF f.i > Len(f.l) THEN Return(s, f.l)
            ELSE SetTop(s, [f EXCEPT !.j = f.i - 1, !.pc = "inner"])
      [] f.pc = "inner" ->
            IF f.j = 0
            THEN SetTop(s, [f EXCEPT !.l = moved(f.l, f.i, 0), !.i = f.i + 1, !.pc = "start"])
            ELSE Push(s, f, "compared", partial_cmp_frame(f.l[f.i], f.l[f.j]))
      [] f.pc = "compared" ->
            IF f.ret = "Less" THEN SetTop(s, [f EXCEPT !.j = f.j - 1, !.pc = "inner"])
            ELSE SetTop(s, [f EXCEPT !.l = moved(f.l, f.i, f.j), !.i = f.i + 1,
                                     !.pc = "start"])

\* left.sort(); right.sort(); cache_insert(SurrealStructure::new(left, right))
new_unchecked_local(s, f) ==
    CASE f.pc = "start" -> Push(s, f, "left_sorted", sort_frame(f.l))
      [] f.pc = "left_sorted" ->
            Push(s, [f EXCEPT !.l = f.ret], "right_sorted", sort_frame(f.r))
      [] f.pc = "right_sorted" ->
            Push(s, [f EXCEPT !.r = f.ret], "interned", cache_insert_frame(f.l, f.ret))
      [] f.pc = "interned" -> Return(s, f.ret)

\* new between its four reads of the cache.
new_local(s, f) ==
    CASE f.pc = "start" -> Push(s, f, "made", new_unchecked_frame(f.l, f.r))
      [] f.pc = "made" -> SetTop(s, [f EXCEPT !.x = f.ret, !.pc = "left_is_empty"])
      [] f.pc = "compare" ->
            Push(s, f, "compared", partial_cmp_frame(f.l[Len(f.l)], f.r[1]))
      [] f.pc = "compared" ->
            Return(s, IF f.ret \in {"Greater", "Equal"} THEN None ELSE f.x)

zero_local(s, f) ==
    CASE f.pc = "start" -> Push(s, f, "made", new_unchecked_frame(<<>>, <<>>))
      [] f.pc = "made" -> Return(s, f.ret)

one_local(s, f) ==
    CASE f.pc = "start" -> Push(s, f, "zeroed", Frame("zero", None, None, <<>>, <<>>))
      [] f.pc = "zeroed" -> Push(s, f, "made", new_unchecked_frame(<<f.ret>>, <<>>))
      [] f.pc = "made" -> Return(s, f.ret)

\* add and neg between their lock acquisitions: the loops over the options
\* read last (phase says which), then the mint of the result.
pushed(f) ==
    IF f.phase <= (IF f.fn = "neg" THEN 1 ELSE 2)
    THEN [f EXCEPT !.acc = Append(f.acc, f.ret)]
    ELSE [f EXCEPT !.acc2 = Append(f.acc2, f.ret)]

\* let result = SurrealFinite::new(new_left, new_right).unwrap();
minted(s, f) ==
    IF f.ret = None THEN Panicking
    ELSE SetTop(s, [f EXCEPT !.a = f.ret, !.pc = "insert"])

add_local(s, f) ==
    CASE f.pc = "loop" ->
            IF f.i <= Len(f.l)
            THEN Push(s, f, "loop_ret",
                      memo_frame("add", f.l[f.i], IF f.phase \in {1, 3} THEN f.y ELSE f.x))
            ELSE IF f.phase < 4 THEN SetTop(s, [f EXCEPT !.phase = f.phase + 1, !.pc = "read"])
            ELSE Push(s, f, "made", new_frame(f.acc, f.acc2))
      [] f.pc = "loop_ret" -> SetTop(s, [pushed(f) EXCEPT !.i = f.i + 1, !.pc = "loop"])
      [] f.pc = "made" -> minted(s, f)

neg_local(s, f) ==
    CASE f.pc = "loop" ->
            IF f.i <= Len(f.l) THEN Push(s, f, "loop_ret", memo_frame("neg", f.l[f.i], None))
            ELSE IF f.phase < 2 THEN SetTop(s, [f EXCEPT !.phase = f.phase + 1, !.pc = "read"])
            ELSE Push(s, f, "made", new_frame(f.acc, f.acc2))
      [] f.pc = "loop_ret" -> SetTop(s, [pushed(f) EXCEPT !.i = f.i + 1, !.pc = "loop"])
      [] f.pc = "made" -> minted(s, f)

\* mul between its lock acquisitions: the nested loops and the six calls of
\* a term add(add(mul(xo, y), mul(x, yo)), neg(mul(xo, yo))).
mul_local(s, f) ==
    CASE f.pc = "outer_loop" ->
            IF f.i <= Len(f.l) THEN SetTop(s, [f EXCEPT !.pc = "inner_read"])
            ELSE IF f.phase < 4
                 THEN SetTop(s, [f EXCEPT !.phase = f.phase + 1, !.pc = "outer_read"])
            ELSE Push(s, f, "made", new_frame(f.acc, f.acc2))
      [] f.pc = "inner_loop" ->
            IF f.j <= Len(f.r) THEN Push(s, f, "t1", memo_frame("mul", f.l[f.i], f.y))
            ELSE SetTop(s, [f EXCEPT !.i = f.i + 1, !.pc = "outer_loop"])
      [] f.pc = "t1" ->
            Push(s, [f EXCEPT !.a = f.ret], "t2", memo_frame("mul", f.x, f.r[f.j]))
      [] f.pc = "t2" -> Push(s, f, "t3", memo_frame("add", f.a, f.ret))
      [] f.pc = "t3" ->
            Push(s, [f EXCEPT !.a = f.ret], "t4", memo_frame("mul", f.l[f.i], f.r[f.j]))
      [] f.pc = "t4" -> Push(s, f, "t5", memo_frame("neg", f.ret, None))
      [] f.pc = "t5" -> Push(s, f, "t6", memo_frame("add", f.a, f.ret))
      [] f.pc = "t6" -> SetTop(s, [pushed(f) EXCEPT !.j = f.j + 1, !.pc = "inner_loop"])
      [] f.pc = "made" -> minted(s, f)

\* The thread's own work at the top of its stack.
local(s) ==
    CASE Top(s).fn = "leq" -> leq_local(s, Top(s))
      [] Top(s).fn = "partial_cmp" -> partial_cmp_local(s, Top(s))
      [] Top(s).fn = "sort" -> sort_local(s, Top(s))
      [] Top(s).fn = "new_unchecked" -> new_unchecked_local(s, Top(s))
      [] Top(s).fn = "new" -> new_local(s, Top(s))
      [] Top(s).fn = "zero" -> zero_local(s, Top(s))
      [] Top(s).fn = "one" -> one_local(s, Top(s))
      [] Top(s).fn = "add" -> add_local(s, Top(s))
      [] Top(s).fn = "neg" -> neg_local(s, Top(s))
      [] Top(s).fn = "mul" -> mul_local(s, Top(s))

\* The thread runs on to its next lock acquisition, or to the end of its call.
RECURSIVE Settle(_)
Settle(s) == IF Resting(s) THEN s ELSE Settle(local(s))

----------------------------------------------------------------------------
\* The lock acquisitions.

\* cache_left(hash) / cache_right(hash) of a read: which side of which operand.
read_side(f) ==
    CASE f.fn = "leq" -> IF f.phase = 1 THEN "left" ELSE "right"
      [] f.fn = "add" -> IF f.phase <= 2 THEN "left" ELSE "right"
      [] f.fn = "neg" -> IF f.phase = 1 THEN "right" ELSE "left"
      [] f.fn = "mul" /\ f.pc = "outer_read" -> IF f.phase \in {1, 3} THEN "left" ELSE "right"
      [] f.fn = "mul" /\ f.pc = "inner_read" -> IF f.phase \in {1, 4} THEN "left" ELSE "right"
      [] f.fn = "new" -> IF f.pc \in {"left_is_empty", "iter_left"} THEN "left" ELSE "right"

read_hash(f) ==
    CASE f.fn = "leq" -> IF f.phase = 1 THEN f.x ELSE f.y
      [] f.fn = "add" -> IF f.phase \in {1, 3} THEN f.x ELSE f.y
      [] f.fn = "neg" -> f.x
      [] f.fn = "mul" -> IF f.pc = "outer_read" THEN f.x ELSE f.y
      [] f.fn = "new" -> f.x

\* The frame after the read returned the options v.
after_read(s, f, v) ==
    CASE f.fn = "leq" ->
            SetTop(s, [f EXCEPT !.l = v, !.i = 1,
                                !.pc = IF f.phase = 1 THEN "left_loop" ELSE "right_loop"])
      [] f.fn \in {"add", "neg"} -> SetTop(s, [f EXCEPT !.l = v, !.i = 1, !.pc = "loop"])
      [] f.fn = "mul" /\ f.pc = "outer_read" ->
            SetTop(s, [f EXCEPT !.l = v, !.i = 1, !.pc = "outer_loop"])
      [] f.fn = "mul" /\ f.pc = "inner_read" ->
            SetTop(s, [f EXCEPT !.r = v, !.j = 1, !.pc = "inner_loop"])
      [] f.fn = "new" /\ f.pc = "left_is_empty" ->
            IF v = <<>> THEN Return(s, f.x) ELSE SetTop(s, [f EXCEPT !.pc = "right_is_empty"])
      [] f.fn = "new" /\ f.pc = "right_is_empty" ->
            IF v = <<>> THEN Return(s, f.x) ELSE SetTop(s, [f EXCEPT !.pc = "iter_left"])
      [] f.fn = "new" /\ f.pc = "iter_left" ->
            SetTop(s, [f EXCEPT !.l = v, !.pc = "iter_right"])
      [] f.fn = "new" /\ f.pc = "iter_right" ->
            SetTop(s, [f EXCEPT !.r = v, !.pc = "compare"])

ReadPcs ==
    {"read", "outer_read", "inner_read", "left_is_empty", "right_is_empty", "iter_left",
     "iter_right"}

\* CACHE.lock().unwrap().get(&hash).unwrap().left.clone() (or .right)
cache_read(s, f) ==
    IF read_hash(f) \notin DOMAIN CACHE THEN Panicking
    ELSE after_read(s, f, IF read_side(f) = "left" THEN CACHE[read_hash(f)].left
                          ELSE CACHE[read_hash(f)].right)

\* The lock a frame at rest is about to take.
lock_of(f) ==
    CASE f.fn = "cache_insert" \/ f.pc \in ReadPcs -> "CACHE"
      [] f.fn = "leq" -> "LEQ_MEMO"
      [] f.fn = "add" -> "ADD_MEMO"
      [] f.fn = "neg" -> "NEG_MEMO"
      [] f.fn = "mul" -> "MUL_MEMO"

\* The locks a thread with the stack s holds: the guards alive in its frames.
Holds(s) == UNION {s[i].guards : i \in DOMAIN s}

\* A lookup whose guard is a local of the function body, not of an inner
\* block: it lives until the function returns.
guards_after_block_removed(f) == IF f.pc = "memo" THEN {lock_of(f)} ELSE {}

\* The guards taken at f.pc that are still alive when the frame goes on to
\* its next acquisition or call.  None: the guard of a lookup is a local of
\* the block that ends before the loops, the guard of hasher(), of an insert
\* and of a read is a temporary of its statement, and the guard of entry()
\* lives to the end of cache_insert, which calls nothing.
guards_after(f) == {}

\* The stack of a thread that took the lock at the top frame's pc.
locked(s) == SetTop(s, [Top(s) EXCEPT !.guards = @ \cup guards_after(Top(s))])

\* The key of a frame's memo entry.
memo_key(f) == IF f.fn = "neg" THEN f.x ELSE <<f.x, f.y>>

\* if cache.contains_key(&key) { return *cache.get(&key).unwrap(); }
memo_get(s, f, memo) ==
    IF memo_key(f) \in DOMAIN memo THEN Return(s, memo[memo_key(f)])
    ELSE SetTop(s, [f EXCEPT !.pc = IF f.fn = "mul" THEN "outer_read" ELSE "read"])

\* A slip in the key of an insert: (x.hash, x.hash) for (x.hash, y.hash).
memo_insert_first_operand(f, memo) ==
    Put(memo, IF f.fn = "neg" THEN f.x ELSE <<f.x, f.x>>, f.a)

\* MEMO.lock().unwrap().insert(key, result)
memo_insert(f, memo) == Put(memo, memo_key(f), f.a)

----------------------------------------------------------------------------
\* The threads.  Each calls the API up to MaxThreadCalls times on the handles
\* it was given; call is the call in progress, last the last call with the
\* value it returned.

InitThreads ==
    /\ CACHE = EmptyMap
    /\ LEQ_MEMO = EmptyMap
    /\ ADD_MEMO = EmptyMap
    /\ NEG_MEMO = EmptyMap
    /\ MUL_MEMO = EmptyMap
    /\ held = {}
    /\ hist = EmptyMap
    /\ steps = 0
    /\ panicked = FALSE
    /\ threads = [t \in Threads |->
                     [stack |-> <<>>, held |-> {}, calls |-> 0, call |-> <<>>, last |-> <<>>]]

\* The option sequences a thread can pass to new.
OptionsOf(h) == UNION {[1..k -> h] : k \in 0..MaxOpts}

\* The calls a thread holding the handles h can make.
ThreadCalls(h) ==
    {<<"zero">>, <<"one">>}
        \cup {<<"new", left, right>> : left \in OptionsOf(h), right \in OptionsOf(h)}
        \cup {<<"add", x, y>> : x \in h, y \in h}
        \cup {<<"neg", x>> : x \in h}
        \cup {<<"mul", xy[1], xy[2]>> : xy \in {p \in h \X h : CanMul(p[1], p[2])}}
        \cup {<<"partial_cmp", x, y>> : x \in h, y \in h}

\* The call in progress returned v: a handle is kept.
Returned(th, v) ==
    [th EXCEPT !.stack = <<>>,
               !.last = <<th.call, v>>,
               !.held = IF th.call[1] # "partial_cmp" /\ v # None /\ Size(v) <= MaxSize
                        THEN th.held \cup {v} ELSE th.held]

\* The thread t after a step that left its stack as s.
Stepped(t, s) ==
    /\ threads' = [threads EXCEPT ![t] =
                      IF Top(Settle(s)).fn = "done"
                      THEN Returned(threads[t], Top(Settle(s)).ret)
                      ELSE [threads[t] EXCEPT !.stack = Settle(s)]]
    /\ panicked' = (Top(Settle(s)).fn = "panic")
    /\ UNCHANGED <<held, hist, steps>>

\* The thread t is about to take a lock at pc in fn.
At(t, fns, pcs) ==
    /\ ~panicked
    /\ threads[t].stack # <<>>
    /\ Top(threads[t].stack).fn \in fns
    /\ Top(threads[t].stack).pc \in pcs
    /\ \A u \in Threads : lock_of(Top(threads[t].stack)) \notin Holds(threads[u].stack)

Invoke(t) ==
    /\ ~panicked
    /\ threads[t].stack = <<>>
    /\ threads[t].calls < MaxThreadCalls
    /\ \E c \in ThreadCalls(threads[t].held) :
          /\ c[1] = "new" => Len(c[2]) + Len(c[3]) <= MaxOpts
          /\ threads' = [threads EXCEPT ![t] =
                            [@ EXCEPT !.stack = Settle(<<call_frame(c)>>), !.call = c,
                                      !.calls = @ + 1]]
    /\ UNCHANGED <<CACHE, LEQ_MEMO, ADD_MEMO, NEG_MEMO, MUL_MEMO, held, hist, steps, panicked>>

\* let mut hasher = CACHE.lock().unwrap().hasher().build_hasher(); .. hasher.finish()
CacheHasher(t) ==
    /\ At(t, {"cache_insert"}, {"hasher"})
    /\ LET s == locked(threads[t].stack)
           f == Top(s)
       IN  Stepped(t, SetTop(s, [f EXCEPT !.a = Hash(SurrealStructure(f.l, f.r)),
                                          !.pc = "entry"]))
    /\ UNCHANGED <<CACHE, LEQ_MEMO, ADD_MEMO, NEG_MEMO, MUL_MEMO>>

\* let mut cache = CACHE.lock().unwrap(); cache.entry(hash).or_insert(structure); hash
CacheEntry(t) ==
    /\ At(t, {"cache_insert"}, {"entry"})
    /\ LET s == locked(threads[t].stack)
           f == Top(s)
       IN  /\ CACHE' = IF f.a \in DOMAIN CACHE THEN CACHE
                       ELSE Put(CACHE, f.a, SurrealStructure(f.l, f.r))
           /\ Stepped(t, Return(s, f.a))
    /\ UNCHANGED <<LEQ_MEMO, ADD_MEMO, NEG_MEMO, MUL_MEMO>>

CacheRead(t) ==
    /\ At(t, {"leq", "add", "neg", "mul", "new"}, ReadPcs)
    /\ Stepped(t, cache_read(locked(threads[t].stack), Top(locked(threads[t].stack))))
    /\ UNCHANGED <<CACHE, LEQ_MEMO, ADD_MEMO, NEG_MEMO, MUL_MEMO>>

LeqMemoGet(t) ==
    /\ At(t, {"leq"}, {"memo"})
    /\ Stepped(t, memo_get(locked(threads[t].stack), Top(locked(threads[t].stack)), LEQ_MEMO))
    /\ UNCHANGED <<CACHE, LEQ_MEMO, ADD_MEMO, NEG_MEMO, MUL_MEMO>>

LeqMemoInsert(t) ==
    /\ At(t, {"leq"}, {"insert"})
    /\ LEQ_MEMO' = memo_insert(Top(threads[t].stack), LEQ_MEMO)
    /\ Stepped(t, Return(locked(threads[t].stack), Top(threads[t].stack).a))
    /\ UNCHANGED <<CACHE, ADD_MEMO, NEG_MEMO, MUL_MEMO>>

AddMemoGet(t) ==
    /\ At(t, {"add"}, {"memo"})
    /\ Stepped(t, memo_get(locked(threads[t].stack), Top(locked(threads[t].stack)), ADD_MEMO))
    /\ UNCHANGED <<CACHE, LEQ_MEMO, ADD_MEMO, NEG_MEMO, MUL_MEMO>>

AddMemoInsert(t) ==
    /\ At(t, {"add"}, {"insert"})
    /\ ADD_MEMO' = memo_insert(Top(threads[t].stack), ADD_MEMO)
    /\ Stepped(t, Return(locked(threads[t].stack), Top(threads[t].stack).a))
    /\ UNCHANGED <<CACHE, LEQ_MEMO, NEG_MEMO, MUL_MEMO>>

NegMemoGet(t) ==
    /\ At(t, {"neg"}, {"memo"})
    /\ Stepped(t, memo_get(locked(threads[t].stack), Top(locked(threads[t].stack)), NEG_MEMO))
    /\ UNCHANGED <<CACHE, LEQ_MEMO, ADD_MEMO, NEG_MEMO, MUL_MEMO>>

NegMemoInsert(t) ==
    /\ At(t, {"neg"}, {"insert"})
    /\ NEG_MEMO' = memo_insert(Top(threads[t].stack), NEG_MEMO)
    /\ Stepped(t, Return(locked(threads[t].stack), Top(threads[t].stack).a))
    /\ UNCHANGED <<CACHE, LEQ_MEMO, ADD_MEMO, MUL_MEMO>>

MulMemoGet(t) ==
    /\ At(t, {"mul"}, {"memo"})
    /\ Stepped(t, memo_get(locked(threads[t].stack), Top(locked(threads[t].stack)), MUL_MEMO))
    /\ UNCHANGED <<CACHE, LEQ_MEMO, ADD_MEMO, NEG_MEMO, MUL_MEMO>>

MulMemoInsert(t) ==
    /\ At(t, {"mul"}, {"insert"})
    /\ MUL_MEMO' = memo_insert(Top(threads[t].stack), MUL_MEMO)
    /\ Stepped(t, Return(locked(threads[t].stack), Top(threads[t].stack).a))
    /\ UNCHANGED <<CACHE, LEQ_MEMO, ADD_MEMO, NEG_MEMO>>

NextThreads ==
    \E t \in Threads :
        \/ Invoke(t)
        \/ CacheHasher(t)
        \/ CacheEntry(t)
        \/ CacheRead(t)
        \/ LeqMemoGet(t)
        \/ LeqMemoInsert(t)
        \/ AddMemoGet(t)
        \/ AddMemoInsert(t)
        \/ NegMemoGet(t)
        \/ NegMemoInsert(t)
        \/ MulMemoGet(t)
        \/ MulMemoInsert(t)

SpecThreads == InitThreads /\ [][NextThreads]_vars

----------------------------------------------------------------------------
\* The expressions a caller writes over its handles, evaluated operand by
\* operand from left to right on the tables as they are.

H(x) == <<"h", x>>

RECURSIVE Eval(_, _)

EvalOp(op, a, b) ==
    IF op = "lt" THEN lt(b.st, a.v, b.v)
    ELSE call(b.st, <<op, a.v, b.v>>)

EvalRight(op, a, e) == LET b == Eval(a.st, e) IN EvalOp(op, a, b)

EvalNeg(a) == call(a.st, <<"neg", a.v>>)

Eval(st, e) ==
    IF e[1] = "h" THEN Ret(e[2], st)
    ELSE IF e[1] \in {"zero", "one"} THEN call(st, e)
    ELSE IF e[1] = "neg" THEN LET a == Eval(st, e[2]) IN EvalNeg(a)
    ELSE LET a == Eval(st, e[2]) IN EvalRight(e[1], a, e[3])

\* The expression e is evaluated without a panic and is true.
True(e) == LET r == Eval(Tables, e) IN r.st.ok /\ r.v = TRUE

\* The expression e is evaluated without a panic.
Total(e) == Eval(Tables, e).st.ok

Leq(x, y) == True(<<"leq", H(x), H(y)>>)

Lt(x, y) == True(<<"lt", H(x), H(y)>>)

----------------------------------------------------------------------------
\* C1: on the handles the public API gave out, leq is a total preorder: any
\* two handles are comparable (so x <= x), <= is transitive, x < y (as
\* partial_cmp decides it) is x <= y and not y <= x, and x <= y <= z with one
\* of the two strict gives x < z.
LeqTotalPreorder ==
    \A x \in held, y \in held, z \in held :
        /\ Total(<<"leq", H(x), H(y)>>)
        /\ Leq(x, x)
        /\ Leq(x, y) \/ Leq(y, x)
        /\ (Leq(x, y) /\ Leq(y, z)) => Leq(x, z)
        /\ Lt(x, y) <=> (Leq(x, y) /\ ~Leq(y, x))
        /\ (Leq(x, y) /\ Leq(y, z) /\ (Lt(x, y) \/ Lt(y, z))) => Lt(x, z)

\* Three handles are held: two of them equal in value and different as
\* identifiers, the third strictly below them.
LeqOnEqualAndStrict ==
    \E x \in held, y \in held, z \in held :
        /\ y # z
        /\ Leq(y, z) /\ Leq(z, y)
        /\ Lt(x, y) /\ Lt(x, z)

----------------------------------------------------------------------------
Plus(a, b) == <<"add", a, b>>

Minus(a, b) == <<"sub", a, b>>

Times(a, b) == <<"mul", a, b>>

Negated(a) == <<"neg", a>>

\* a == b: leq in both directions
Same(a, b) == <<"eq", a, b>>

\* C2: on the handles the public API gave out, up to == (leq both ways):
\* x + zero == x, x + y == y + x, (x + y) + z == x + (y + z), and x == y
\* implies x + z == y + z.
AddLaws ==
    \A x \in held, y \in held, z \in held :
        /\ True(Same(Plus(H(x), <<"zero">>), H(x)))
        /\ True(Same(Plus(H(x), H(y)), Plus(H(y), H(x))))
        /\ True(Same(Plus(Plus(H(x), H(y)), H(z)), Plus(H(x), Plus(H(y), H(z)))))
        /\ True(Same(H(x), H(y))) => True(Same(Plus(H(x), H(z)), Plus(H(y), H(z))))

\* The caller added two different handles and got a third, and the sum in
\* the other order is equal to it.
AddedTwoHandles ==
    \E x \in held, y \in held :
        /\ x # y
        /\ <<"add", x, y>> \in DOMAIN hist
        /\ hist[<<"add", x, y>>] \notin {x, y}
        /\ True(Same(H(hist[<<"add", x, y>>]), Plus(H(y), H(x))))

----------------------------------------------------------------------------
\* C3: on the handles the public API gave out, up to ==: x - x == zero,
\* -(-x) == x, (x + y) - y == x and -(x + y) == (-x) + (-y), where x - y is
\* x + (-y).
NegLaws ==
    \A x \in held, y \in held :
        /\ True(Same(Minus(H(x), H(x)), <<"zero">>))
        /\ True(Same(Negated(Negated(H(x))), H(x)))
        /\ True(Same(Minus(Plus(H(x), H(y)), H(y)), H(x)))
        /\ True(Same(Negated(Plus(H(x), H(y))), Plus(Negated(H(x)), Negated(H(y)))))

\* The caller negated a handle with options on both sides and subtracted a
\* handle that is not zero from itself.
NegatedAndSubtracted ==
    \E x \in held, y \in held :
        /\ <<"neg", x>> \in DOMAIN hist
        /\ cache_left(Tables, x) # <<>> /\ cache_right(Tables, x) # <<>>
        /\ <<"sub", y, y>> \in DOMAIN hist
        /\ ~True(Same(H(y), <<"zero">>))
        /\ True(Same(H(hist[<<"sub", y, y>>]), <<"zero">>))

----------------------------------------------------------------------------
\* C4: on the handles the public API gave out, up to ==: x * zero == zero,
\* x * one == x, x * y == y * x and -(x * y) == (-x) * y, for the products
\* whose operands are of at most MaxMulDay days together.
MulLaws ==
    \A x \in held, y \in held :
        /\ Day(x) <= MaxMulDay => True(Same(Times(H(x), <<"zero">>), <<"zero">>))
        /\ Day(x) + 1 <= MaxMulDay => True(Same(Times(H(x), <<"one">>), H(x)))
        /\ CanMul(x, y) => True(Same(Times(H(x), H(y)), Times(H(y), H(x))))
        /\ CanMul(x, y) =>
              True(Same(Negated(Times(H(x), H(y))), Times(Negated(H(x)), H(y))))

\* The caller multiplied two different handles, neither of them zero in
\* value, and the product in the other order is equal to the one it got.
MultipliedTwoHandles ==
    \E x \in held, y \in held :
        /\ x # y
        /\ ~True(Same(H(x), <<"zero">>)) /\ ~True(Same(H(y), <<"zero">>))
        /\ <<"mul", x, y>> \in DOMAIN hist
        /\ True(Same(H(hist[<<"mul", x, y>>]), Times(H(y), H(x))))

----------------------------------------------------------------------------
\* C5: new(left, right) on held handles returns None exactly when both sides
\* are non-empty and some l of left is not strictly less than some r of right
\* (equal in value included); otherwise it returns a handle.
NewRejects(left, right) ==
    /\ left # <<>>
    /\ right # <<>>
    /\ \E i \in DOMAIN left, j \in DOMAIN right : ~Lt(left[i], right[j])

NewNoneIffNotLess ==
    \A left \in Options, right \in Options :
        LET r == new(Tables, left, right)
        IN  /\ r.st.ok
            /\ r.v = None <=> NewRejects(left, right)

\* The caller passed new a left and a right option that are equal in value
\* and got None.
NewRejectedEqualOptions ==
    \E c \in DOMAIN hist :
        /\ c[1] = "new" /\ Len(c[2]) = 1 /\ Len(c[3]) = 1
        /\ hist[c] = None
        /\ Leq(c[2][1], c[3][1]) /\ Leq(c[3][1], c[2][1])

----------------------------------------------------------------------------
\* Every left option of the structure of hash is strictly less than every
\* right option of it.
WellFormed(st, hash) ==
    \A i \in DOMAIN cache_left(st, hash), j \in DOMAIN cache_right(st, hash) :
        LET c == lt(st, cache_left(st, hash)[i], cache_right(st, hash)[j])
        IN  c.st.ok /\ c.v

\* The call that returned r did not panic, and the result of every step of
\* add, neg and mul so far is well formed.
Succeeded(r) ==
    /\ r.st.ok
    /\ \A k \in DOMAIN r.st.add : WellFormed(r.st, r.st.add[k])
    /\ \A k \in DOMAIN r.st.neg : WellFormed(r.st, r.st.neg[k])
    /\ \A k \in DOMAIN r.st.mul : WellFormed(r.st, r.st.mul[k])

\* C6: add, neg, sub and mul (on operands of at most MaxMulDay days together)
\* of held handles never fail: new(..).unwrap() inside them never meets None,
\* and every step's result has each left option < each right option.
ArithmeticTotal ==
    \A x \in held, y \in held :
        /\ Succeeded(add(Tables, x, y))
        /\ Succeeded(neg(Tables, x))
        /\ Succeeded(sub(Tables, x, y))
        /\ CanMul(x, y) => Succeeded(mul(Tables, x, y))

\* The caller got from add, sub or mul a handle with options on both sides.
ArithmeticGaveTwoSided ==
    \E c \in DOMAIN hist :
        /\ c[1] \in {"add", "sub", "mul"}
        /\ cache_left(Tables, hist[c]) # <<>>
        /\ cache_right(Tables, hist[c]) # <<>>
        /\ WellFormed(Tables, hist[c])

----------------------------------------------------------------------------
\* ftos(x.stof()), from the tables as they are.
RoundTrip(x) == ftos(Tables, stof(Tables, x))

\* v[i] == ftos(v[i].stof())
RoundTripSame(x) ==
    LET r == RoundTrip(x)
    IN  /\ r.st.ok
        /\ r.v # Diverges
        /\ LET c == eq(r.st, x, r.v) IN c.st.ok /\ c.v

\* C7: for every handle x built through the validating constructor (the
\* canonical forms and the others), ftos(stof(x)) == x.
FtosOfStofSame == \A x \in held : RoundTripSame(x)

\* C8: stof agrees with the order on the handles the public API gave out:
\* x <= y exactly when stof(x) <= stof(y).
StofAgreesWithLeq ==
    \A x \in held, y \in held :
        Leq(x, y) <=> DLeq(stof(Tables, x), stof(Tables, y))

----------------------------------------------------------------------------
\* The tables with the structure cache as it is and the four memo tables empty.
Fresh ==
    [Tables EXCEPT !.leq = EmptyMap, !.add = EmptyMap, !.neg = EmptyMap, !.mul = EmptyMap]

\* The call c returns the identifier v from the tables as they are and from
\* the tables with empty memo tables.
ReturnsAgain(c, v) ==
    /\ LET r == call(Tables, c) IN r.st.ok /\ r.v = v
    /\ LET r == call(Fresh, c) IN r.st.ok /\ r.v = v

\* C9: whatever calls came before, a call of add, neg, mul, sub or a
\* constructor made earlier returns again the identifier it returned, from
\* the memo tables as they are and computed afresh; every entry of a memo
\* table is the identifier a fresh computation returns; and interning the
\* content of a cached structure returns its identifier.
MemoTransparent ==
    /\ \A c \in DOMAIN hist :
          c[1] \in {"add", "neg", "mul", "sub", "new", "zero", "one"} =>
              ReturnsAgain(c, hist[c])
    /\ \A k \in DOMAIN ADD_MEMO : ReturnsAgain(<<"add", k[1], k[2]>>, ADD_MEMO[k])
    /\ \A k \in DOMAIN NEG_MEMO : ReturnsAgain(<<"neg", k>>, NEG_MEMO[k])
    /\ \A k \in DOMAIN MUL_MEMO : ReturnsAgain(<<"mul", k[1], k[2]>>, MUL_MEMO[k])
    /\ \A k \in DOMAIN CACHE : cache_insert(Tables, CACHE[k]) = Ret(k, Tables)

\* The caller added two different handles and got a third; asked again, add
\* answers from its memo table (the tables stay as they are), and computed
\* with empty memo tables the sum is the same identifier.
AddAnsweredFromMemo ==
    \E c \in DOMAIN hist :
        /\ c[1] = "add"
        /\ c[2] # c[3]
        /\ hist[c] \notin {c[2], c[3]}
        /\ call(Tables, c) = Ret(hist[c], Tables)
        /\ call(Fresh, c).st # Fresh
        /\ call(Fresh, c).v = hist[c]

----------------------------------------------------------------------------
\* Every key of m is a key of n with the value it had.
Persists(m, n) == \A k \in DOMAIN m : k \in DOMAIN n /\ n[k] = m[k]

\* The value the call c returns when run alone on empty memo tables.
Alone(c) == call(Fresh, c).v

\* C10: in every step of every interleaving of the threads, a key of the
\* structure cache or of a memo table keeps its value, a key that is new in a
\* table gets the value the call run alone returns (a structure under its own
\* identifier), and a call of a thread returns what it returns run alone.
KeysKeepSequentialValues ==
    [][/\ Persists(CACHE, CACHE')
       /\ Persists(LEQ_MEMO, LEQ_MEMO')
       /\ Persists(ADD_MEMO, ADD_MEMO')
       /\ Persists(NEG_MEMO, NEG_MEMO')
       /\ Persists(MUL_MEMO, MUL_MEMO')
       /\ \A k \in DOMAIN CACHE' \ DOMAIN CACHE : Hash(CACHE'[k]) = k
       /\ \A k \in DOMAIN LEQ_MEMO' \ DOMAIN LEQ_MEMO :
             LEQ_MEMO'[k] = Alone(<<"leq", k[1], k[2]>>)
       /\ \A k \in DOMAIN ADD_MEMO' \ DOMAIN ADD_MEMO :
             ADD_MEMO'[k] = Alone(<<"add", k[1], k[2]>>)
       /\ \A k \in DOMAIN NEG_MEMO' \ DOMAIN NEG_MEMO : NEG_MEMO'[k] = Alone(<<"neg", k>>)
       /\ \A k \in DOMAIN MUL_MEMO' \ DOMAIN MUL_MEMO :
             MUL_MEMO'[k] = Alone(<<"mul", k[1], k[2]>>)
       /\ \A t \in Threads :
             threads'[t].last # threads[t].last =>
                 threads'[t].last[2] = Alone(threads'[t].last[1])]_vars

\* A thread is about to insert a sum under a key that another thread, which
\* missed on the same key, has written already: the same value.
LoserAboutToWrite ==
    \E t \in Threads :
        /\ threads[t].stack # <<>>
        /\ Top(threads[t].stack).fn = "add"
        /\ Top(threads[t].stack).pc = "insert"
        /\ Top(threads[t].stack).x # Top(threads[t].stack).y
        /\ memo_key(Top(threads[t].stack)) \in DOMAIN ADD_MEMO
        /\ ADD_MEMO[memo_key(Top(threads[t].stack))] = Top(threads[t].stack).a

----------------------------------------------------------------------------
\* The thread with the stack s is in a call and about to take a lock.
Waiting(s) == s # <<>> /\ Top(s).fn \notin {"done", "panic"}

----------------------------------------------------------------------------
\* The term x - k y of x, x - y, x - 2y, .., subtracted one y at a time on
\* the tables st.
RECURSIVE Term(_, _, _, _)

TermNext(d, y, k) == Term(d.st, d.v, y, k - 1)

Term(st, t, y, k) ==
    IF k = 0 THEN Ret(t, st) ELSE LET d == call(st, <<"sub", t, y>>) IN TermNext(d, y, k)

\* The comparison c was made without a panic and is true.
IsTrue(c) == c.st.ok /\ c.v = TRUE

\* The term t is < y, is >= y.
TermLess(t, y) == IsTrue(lt(t.st, t.v, y))

TermGe(t, y) == IsTrue(ge(t.st, t.v, y))

\* y > zero or x < y
Ends(x, y) == True(<<"lt", <<"zero">>, H(y)>>) \/ Lt(x, y)

\* y <= zero and x >= y
Loops(x, y) == True(<<"leq", H(y), <<"zero">>>>) /\ Leq(y, x)

\* What a remainder returns on x and y: r, with the tables it leaves.
RemainderIs(x, y, r) ==
    /\ r.st.ok
    /\ (r.v # Diverges) <=> Ends(x, y)
    /\ Loops(x, y) => r.v = Diverges
    /\ r.v = Diverges =>
          /\ Loops(x, y)
          /\ \A k \in 0..RemFuel : TermGe(Term(r.st, x, y, k), y)
    /\ r.v # Diverges =>
          /\ TermLess(r, y)
          /\ Lt(x, y) => r.v = x
          /\ \E k \in 0..RemFuel :
                /\ r.v = Term(r.st, x, y, k).v
                /\ \A j \in 0..(k - 1) : TermGe(Term(r.st, x, y, j), y)

\* C12: x % y and x %= y of held handles (of a quotient the model follows)
\* end if and only if y > zero or x < y; with y <= zero and x >= y every
\* term x - k y stays >= y (and one more subtraction keeps any held total
\* >= y, so the loop cannot end later); when the loop ends the result is
\* the first term of x, x - y, x - 2y, .. that is < y, x itself when x < y.
RemEndsIffPositiveOrLess ==
    /\ \A xy \in RemArgs :
          /\ RemainderIs(xy[1], xy[2], call(Tables, <<"rem", xy[1], xy[2]>>))
          /\ RemainderIs(xy[1], xy[2], call(Tables, <<"rem_assign", xy[1], xy[2]>>))
    /\ \A t \in held, y \in held :
          Loops(t, y) => True(<<"leq", H(y), Minus(H(t), H(y))>>)

\* The caller took a remainder by a negative y that does not end, and holds
\* an x whose remainder ends after a subtraction with a result < x.
RemLoopedAndEnded ==
    /\ \E c \in DOMAIN hist :
          /\ c[1] \in {"rem", "rem_assign"}
          /\ hist[c] = Diverges
          /\ Lt(c[3], c[2])
          /\ True(<<"lt", H(c[3]), <<"zero">>>>)
    /\ \E xy \in RemArgs :
          /\ rem(Tables, xy[1], xy[2]).v \notin {Diverges, xy[1]}
          /\ TermLess(rem(Tables, xy[1], xy[2]), xy[2])

----------------------------------------------------------------------------
\* Every identifier of the sequence v is a key of the structure cache.
AllCached(v) == \A i \in DOMAIN v : v[i] \in DOMAIN CACHE

\* The handles of the caller, the options of the cached structures and the
\* results in the memo tables of add, neg and mul are keys of the cache.
CacheClosed ==
    /\ \A x \in held : x \in DOMAIN CACHE
    /\ \A k \in DOMAIN CACHE : AllCached(CACHE[k].left) /\ AllCached(CACHE[k].right)
    /\ \A k \in DOMAIN ADD_MEMO : ADD_MEMO[k] \in DOMAIN CACHE
    /\ \A k \in DOMAIN NEG_MEMO : NEG_MEMO[k] \in DOMAIN CACHE
    /\ \A k \in DOMAIN MUL_MEMO : MUL_MEMO[k] \in DOMAIN CACHE

\* C13: every call of the API, a rejected new included, keeps every entry of
\* the structure cache as it is and leaves the caller's handles, the options
\* of every cached structure and the results stored by add, neg and mul
\* among the keys of the cache; no call panics on a missing identifier.
HandlesStayCached == [][Persists(CACHE, CACHE') /\ CacheClosed' /\ ~panicked']_vars

\* new rejected two single options: the structure it interned is a key of
\* the cache that the caller does not hold, beside a result stored by add.
RejectedStaysCached ==
    /\ \E c \in DOMAIN hist :
          /\ c[1] = "new"
          /\ hist[c] = None
          /\ Len(c[2]) = 1
          /\ Len(c[3]) = 1
          /\ Hash(SurrealStructure(c[2], c[3])) \in DOMAIN CACHE \ held
    /\ \E k \in DOMAIN ADD_MEMO : ADD_MEMO[k] \in DOMAIN CACHE \ held

----------------------------------------------------------------------------
\* The pairs the definition of <= is unfolded on without a memo table.
MaxLeqSize == 12

\* x <= y by the definition: no left option xl of x with y <= xl and no right
\* option yr of y with yr <= x, every option looked at, nothing remembered.
RECURSIVE LeqDef(_, _)
LeqDef(x, y) ==
    /\ \A i \in DOMAIN CACHE[x].left : ~LeqDef(y, CACHE[x].left[i])
    /\ \A j \in DOMAIN CACHE[y].right : ~LeqDef(CACHE[y].right[j], x)

\* The entry of LEQ_MEMO under <<x, y>> is b.
Stored(x, y, b) == <<x, y>> \in DOMAIN LEQ_MEMO /\ LEQ_MEMO[<<x, y>>] = b

\* The entry under <<x, y>> follows by one step of the definition from the
\* entries of the pairs the loops looked at: a TRUE from a FALSE under every
\* pair, a FALSE from a TRUE under one of them.
StepOfDef(x, y) ==
    IF LEQ_MEMO[<<x, y>>]
    THEN /\ \A i \in DOMAIN CACHE[x].left : Stored(y, CACHE[x].left[i], FALSE)
         /\ \A j \in DOMAIN CACHE[y].right : Stored(CACHE[y].right[j], x, FALSE)
    ELSE \/ \E i \in DOMAIN CACHE[x].left : Stored(y, CACHE[x].left[i], TRUE)
         \/ \E j \in DOMAIN CACHE[y].right : Stored(CACHE[y].right[j], x, TRUE)

\* C14: leq returns the value of the recursive definition, from the memo
\* table as it is and computed afresh, and every entry of LEQ_MEMO is that
\* value: it follows by one step of the definition from the entries of its
\* sub-pairs (so, by induction on the pairs, it is the defined value), and
\* on the pairs of at most MaxLeqSize nodes it equals the definition
\* unfolded in full.
LeqIsItsDefinition ==
    /\ \A x \in held, y \in held :
          /\ call(Tables, <<"leq", x, y>>).v = LeqDef(x, y)
          /\ call(Fresh, <<"leq", x, y>>).v = LeqDef(x, y)
    /\ \A k \in DOMAIN LEQ_MEMO :
          /\ StepOfDef(k[1], k[2])
          /\ Size(k[1]) + Size(k[2]) <= MaxLeqSize => LEQ_MEMO[k] = LeqDef(k[1], k[2])

\* The table holds a FALSE found by the first loop, with a pair of the second
\* loop that was never looked at, and a TRUE whose loops looked at an option
\* on each side.
LeqShortCircuited ==
    /\ \E k \in DOMAIN LEQ_MEMO :
          /\ ~LEQ_MEMO[k]
          /\ \E i \in DOMAIN CACHE[k[1]].left : Stored(k[2], CACHE[k[1]].left[i], TRUE)
          /\ \E j \in DOMAIN CACHE[k[2]].right :
                <<CACHE[k[2]].right[j], k[1]>> \notin DOMAIN LEQ_MEMO
    /\ \E k \in DOMAIN LEQ_MEMO :
          /\ LEQ_MEMO[k]
          /\ CACHE[k[1]].left # <<>>
          /\ CACHE[k[2]].right # <<>>

----------------------------------------------------------------------------
\* The left and the right options of the cached structure of x, as sets.
Left(x) == {CACHE[x].left[i] : i \in DOMAIN CACHE[x].left}

Right(x) == {CACHE[x].right[i] : i \in DOMAIN CACHE[x].right}

\* The sums, negations and products the tables hold.
HasSum(a, b) == <<a, b>> \in DOMAIN ADD_MEMO

Sum(a, b) == ADD_MEMO[<<a, b>>]

HasProduct(a, b) == <<a, b>> \in DOMAIN MUL_MEMO

Product(a, b) == MUL_MEMO[<<a, b>>]

\* xo y + x yo - xo yo is held by the tables, each product from a call of
\* mul on an option of x or of y.
HasTerm(x, y, xo, yo) ==
    /\ HasProduct(xo, y)
    /\ HasProduct(x, yo)
    /\ HasProduct(xo, yo)
    /\ HasSum(Product(xo, y), Product(x, yo))
    /\ Product(xo, yo) \in DOMAIN NEG_MEMO
    /\ HasSum(Sum(Product(xo, y), Product(x, yo)), NEG_MEMO[Product(xo, yo)])

TermOfProduct(x, y, xo, yo) ==
    Sum(Sum(Product(xo, y), Product(x, yo)), NEG_MEMO[Product(xo, yo)])

\* The structure minted for x + y.
SumMinted(x, y) ==
    /\ \A o \in Left(x) \cup Right(x) : HasSum(o, y)
    /\ \A o \in Left(y) \cup Right(y) : HasSum(o, x)
    /\ Left(Sum(x, y)) = {Sum(xl, y) : xl \in Left(x)} \cup {Sum(yl, x) : yl \in Left(y)}
    /\ Right(Sum(x, y)) = {Sum(xr, y) : xr \in Right(x)} \cup {Sum(yr, x) : yr \in Right(y)}

\* The structure minted for -x.
NegationMinted(x) ==
    /\ \A o \in Left(x) \cup Right(x) : o \in DOMAIN NEG_MEMO
    /\ Left(NEG_MEMO[x]) = {NEG_MEMO[xr] : xr \in Right(x)}
    /\ Right(NEG_MEMO[x]) = {NEG_MEMO[xl] : xl \in Left(x)}

\* The structure minted for x * y.
ProductMinted(x, y) ==
    /\ \A xo \in Left(x) \cup Right(x), yo \in Left(y) \cup Right(y) : HasTerm(x, y, xo, yo)
    /\ Left(Product(x, y)) =
          {TermOfProduct(x, y, p[1], p[2]) : p \in Left(x) \X Left(y)}
              \cup {TermOfProduct(x, y, p[1], p[2]) : p \in Right(x) \X Right(y)}
    /\ Right(Product(x, y)) =
          {TermOfProduct(x, y, p[1], p[2]) : p \in Left(x) \X Right(y)}
              \cup {TermOfProduct(x, y, p[1], p[2]) : p \in Right(x) \X Left(y)}

\* C15: every result in a memo table of add, neg and mul is a structure with
\* the option sets of the defining equation, built from the results the
\* tables hold for the function's calls of itself, each on an option of x or
\* of y in the place of x or y (the sums and the negation inside a term of a
\* product are calls of add and neg on products).
MintedByEquations ==
    /\ \A k \in DOMAIN ADD_MEMO : SumMinted(k[1], k[2])
    /\ \A k \in DOMAIN NEG_MEMO : NegationMinted(k)
    /\ \A k \in DOMAIN MUL_MEMO : ProductMinted(k[1], k[2])

\* The tables hold a product with an option, a sum with options on both
\* sides and the negation of a handle with an option.
MintedWithOptions ==
    /\ \E k \in DOMAIN MUL_MEMO :
          Left(Product(k[1], k[2])) \cup Right(Product(k[1], k[2])) # {}
    /\ \E k \in DOMAIN ADD_MEMO :
          Left(Sum(k[1], k[2])) # {} /\ Right(Sum(k[1], k[2])) # {}
    /\ \E k \in DOMAIN NEG_MEMO : Left(k) \cup Right(k) # {}

====
